---- MODULE Spec2Model ----
(***************************************************************************)
(* A model of wb_to_csv.py: the paginated fetch with its 502 retry loop    *)
(* (wb_get_request), the page loop of main that groups observations by     *)
(* mission, and output_data, which sorts one partition, cuts it into time  *)
(* buckets and hands every segment to convert_to_csv under a file name     *)
(* derived from the bucket's mid-point.                                    *)
(*                                                                         *)
(* An observation is a function whose DOMAIN is the set of keys the JSON   *)
(* record carries ("id" stands for the rest of the payload and makes two   *)
(* records distinguishable).  bucket_hours is a float in the program; the  *)
(* model carries it in half hours (bucket_hours2 = 2 * bucket_hours) so    *)
(* that 0.5 h, 6 h and 24 h are all integers.                              *)
(***************************************************************************)
EXTENDS Integers, Sequences, FiniteSets, TLC

\* ---------------------------------------------------------------- bounds
MaxObs == 2
MaxPages == 2
MaxLen == 3

\* ------------------------------------------------------- program constants
MaxRetries == 5
BadGateway == 502
SecondsPerHalfHour == 1800
SecondsPerDay == 86400

\* ------------------------------------------------------------ input sets
\* bucket_hours in half hours: 0.5 h, 6 h (the default), 24 h
BucketHours2 == {1, 12, 48}
StartTimes == {0, 2000}
EndTimes == {100000}
Timestamps == {100, 200, 1900, 21600, 25000, 90000}
Missions == {"m1", "m2"}
Cursors == {"p1", "p2"}
StatusCodes == {200, 404, 502}

\* the record shapes a page of the API may carry (without the payload id)
PageRecords ==
    {[timestamp |-> 100, mission_name |-> "m1"],
     [timestamp |-> 1900, mission_name |-> "m1"],
     [timestamp |-> 100, mission_name |-> "m2"],
     [timestamp |-> 100],
     [mission_name |-> "m1"]}

\* ---------------------------------------------------------------- helpers
WithId(rec, n) == [k \in (DOMAIN rec) \cup {"id"} |-> IF k = "id" THEN n ELSE rec[k]]

RECURSIVE Pow2(_)
Pow2(k) == IF k = 0 THEN 1 ELSE 2 * Pow2(k - 1)

RECURSIVE Flatten(_)
Flatten(ss) == IF ss = <<>> THEN <<>> ELSE Head(ss) \o Flatten(Tail(ss))

\* ------------------------------------------------ wb_get_request (15-43)
\* variant: the retry bound off by one (retries <= 5)
ShouldRetryOneMore(code, n) == code = BadGateway /\ n <= MaxRetries

\* while response.status_code == 502 and retries < 5
ShouldRetry(code, n) == code = BadGateway /\ n < MaxRetries

\* response.raise_for_status() raises HTTPError for 4xx and 5xx
RaisesForStatus(code) == code >= 400 /\ code < 600

\* ------------------------------------------------- the page loop of main
\* the request URL: the cursor plus the query string main appends
PageUrl(cursor, min_time, max_time) ==
    [cursor |-> cursor, min_time |-> min_time, max_time |-> max_time,
     include_mission_name |-> TRUE]

\* variant: the loop never takes the cursor of the response
NextPageUrlStale(old, hnp, cursor, min_time, max_time) == old

\* if has_next_page: next_page = observations_page["next_page"] + "&..."
NextPageUrl(old, hnp, cursor, min_time, max_time) ==
    IF hnp THEN PageUrl(cursor, min_time, max_time) ELSE old

\* observations_by_mission is a dict, kept here in insertion order as a
\* sequence of [mission_name, observations] entries
HasMission(by_mission, m) == \E k \in 1..Len(by_mission) : by_mission[k].mission_name = m

MissionList(by_mission, m) ==
    LET k == CHOOSE k \in 1..Len(by_mission) : by_mission[k].mission_name = m
    IN  by_mission[k].observations

AppendToMission(by_mission, m, observation) ==
    LET created == IF HasMission(by_mission, m) THEN by_mission
                   ELSE Append(by_mission, [mission_name |-> m, observations |-> <<>>])
    IN  [k \in 1..Len(created) |->
            IF created[k].mission_name = m
            THEN [created[k] EXCEPT !.observations = Append(@, observation)]
            ELSE created[k]]

\* variant: the mission_name test placed after the append to the combined list
AcceptObservationLate(acc, observation) ==
    IF "mission_name" \notin DOMAIN observation
    THEN [acc EXCEPT !.warnings = @ + 1, !.accumulated = Append(@, observation)]
    ELSE [by_mission |-> AppendToMission(acc.by_mission, observation["mission_name"], observation),
          accumulated |-> Append(acc.accumulated, observation),
          warnings |-> acc.warnings]

\* one iteration of "for observation in observations_page['observations']"
\* acc = [by_mission, accumulated, warnings]
AcceptObservation(acc, observation) ==
    IF "mission_name" \notin DOMAIN observation
    THEN [acc EXCEPT !.warnings = @ + 1]
    ELSE [by_mission |-> AppendToMission(acc.by_mission, observation["mission_name"], observation),
          accumulated |-> Append(acc.accumulated, observation),
          warnings |-> acc.warnings]

RECURSIVE ProcessObservations(_, _)
ProcessObservations(acc, page) ==
    IF page = <<>> THEN acc
    ELSE ProcessObservations(AcceptObservation(acc, Head(page)), Tail(page))

\* variant: the test for an empty result left out
NoObservationsFoundNever(by_mission) == FALSE

\* if len(observations_by_mission) == 0: print("No observations found"); return
NoObservationsFound(by_mission) == Len(by_mission) = 0

\* ------------------------------------------------------------ output_data
\* bucket_hours * 60 * 60
Width(b2) == b2 * SecondsPerHalfHour

\* accumulated_observations.sort(key=lambda x: x['timestamp']) : a stable sort
RECURSIVE Insert(_, _)
Insert(sorted, x) ==
    IF sorted = <<>> THEN <<x>>
    ELSE IF Head(sorted)["timestamp"] <= x["timestamp"]
         THEN <<Head(sorted)>> \o Insert(Tail(sorted), x)
         ELSE <<x>> \o sorted

RECURSIVE SortByTimestamp(_)
SortByTimestamp(obs) ==
    IF obs = <<>> THEN <<>>
    ELSE Insert(SortByTimestamp(SubSeq(obs, 1, Len(obs) - 1)), obs[Len(obs)])

\* variant: the first bucket anchored to the requested start time
BucketStartFromStartTime(earliest_time, start_time, b2) == start_time - (start_time % Width(b2))

\* curtime = earliest_time - earliest_time % (bucket_hours * 60 * 60)
BucketStart(earliest_time, start_time, b2) == earliest_time - (earliest_time % Width(b2))

\* accumulated_observations[i]['timestamp'] - curtime > bucket_hours * 60 * 60
ClosesBucket(ts, cur, b2) == ts - cur > Width(b2)

\* variant: the slice starts one element late
SegmentFromNext(obs, start, stop) == SubSeq(obs, start + 2, stop)

\* accumulated_observations[start_index:i] with 0-based indices
Segment(obs, start, stop) == SubSeq(obs, start + 1, stop)

\* datetime.timedelta(hours=bucket_hours).seconds : the seconds field of the
\* normalised timedelta, which leaves out whole days
TimedeltaSeconds(b2) == Width(b2) % SecondsPerDay

\* fromtimestamp(curtime, utc) + timedelta(hours=bucket_hours / 2), in seconds
LabelTime(cur, b2) == cur + (Width(b2) \div 2)

\* (year, month, day) of a day number counted from 1970-01-01 (proleptic
\* Gregorian calendar, as datetime computes it)
CivilFromDays(days) ==
    LET z == days + 719468
        era == z \div 146097
        doe == z - era * 146097
        yoe == (doe - doe \div 1460 + doe \div 36524 - doe \div 146096) \div 365
        doy == doe - (365 * yoe + yoe \div 4 - yoe \div 100)
        mp == (5 * doy + 2) \div 153
        d == doy - (153 * mp + 2) \div 5 + 1
        m == IF mp < 10 THEN mp + 3 ELSE mp - 9
        y == yoe + era * 400 + (IF m <= 2 THEN 1 ELSE 0)
    IN  <<y, m, d>>

\* "WindBorne_%s_%04d-%02d-%02d_%02d_%dh.csv" % (mission_name, mt.year,
\* mt.month, mt.day, mt.hour, bucket_hours): minutes and seconds of mt are
\* not part of the name and %d truncates bucket_hours to an integer
OutputFile(mission, cur, b2) ==
    LET mt == LabelTime(cur, b2)
        ymd == CivilFromDays(mt \div SecondsPerDay)
    IN  [mission |-> mission, year |-> ymd[1], month |-> ymd[2], day |-> ymd[3],
         hour |-> (mt % SecondsPerDay) \div 3600, hours |-> b2 \div 2]

\* convert_to_csv: no file for an empty segment, else open(output_file, 'w')
\* replaces whatever file had that name
ConvertToCsv(fs, data, output_file) ==
    IF Len(data) = 0 THEN fs
    ELSE {f \in fs : f.name # output_file} \cup {[name |-> output_file, data |-> data]}

\* ------------------------------------------------------------------ state
VARIABLES
    pc,                       \* where the program is
    starttime, endtime,       \* the parsed command-line times
    bucket_hours2,            \* 2 * args.bucket_hours
    combine_missions,         \* args.combine_missions
    has_next_page, next_page, \* the page loop's variables
    observations_by_mission, accumulated_observations,
    url, status_code, retries,\* wb_get_request: its argument and locals
    statuses, slept,          \* log: every status received / every sleep of this call
    pages,                    \* log: every page received, with the URL that fetched it
    stdout,                   \* counts of the messages printed
    todo,                     \* partitions main has still to hand to output_data
    calls,                    \* log: the arguments of every output_data call
    od_mission,               \* output_data: mission_name (its list is accumulated_observations)
    curtime, start_index, i,  \* output_data: its locals
    emitted,                  \* log: every convert_to_csv call of output_data
    files,                    \* the working directory
    error                     \* the exception that ended the run, if any

vars == <<pc, starttime, endtime, bucket_hours2, combine_missions, has_next_page,
          next_page, observations_by_mission, accumulated_observations, url,
          status_code, retries, statuses, slept, pages, stdout, todo, calls,
          od_mission, curtime, start_index, i, emitted, files, error>>

args == <<starttime, endtime, bucket_hours2, combine_missions>>
loopVars == <<has_next_page, next_page, observations_by_mission, accumulated_observations, pages>>
wbVars == <<url, status_code, retries, statuses, slept>>
odVars == <<od_mission, curtime, start_index, i>>

NoUrl == [cursor |-> "none"]
NoStdout == [warnings |-> 0, no_observations |-> 0, wtf |-> 0]

\* main, right before the page loop (165-169)
Init ==
    /\ pc = "main_loop"
    /\ starttime \in StartTimes
    /\ endtime \in EndTimes
    /\ bucket_hours2 \in BucketHours2
    /\ combine_missions \in BOOLEAN
    /\ has_next_page = TRUE
    /\ next_page = PageUrl("first", starttime, endtime)
    /\ observations_by_mission = <<>>
    /\ accumulated_observations = <<>>
    /\ url = NoUrl /\ status_code = 0 /\ retries = 0
    /\ statuses = <<>> /\ slept = <<>>
    /\ pages = <<>>
    /\ stdout = NoStdout
    /\ todo = <<>> /\ calls = <<>>
    /\ od_mission = ""
    /\ curtime = 0 /\ start_index = 0 /\ i = 0
    /\ emitted = <<>> /\ files = {}
    /\ error = ""

Fetched == Flatten([k \in 1..Len(pages) |-> pages[k].observations])

\* wb_get_request(next_page) up to the first response (175, 15-33)
WbGetRequest ==
    /\ pc = "main_loop" /\ has_next_page
    /\ url' = next_page
    /\ \E code \in StatusCodes : status_code' = code /\ statuses' = <<code>>
    /\ retries' = 0 /\ slept' = <<>>
    /\ pc' = "wb_response"
    /\ UNCHANGED <<args, loopVars, stdout, todo, calls, odVars, emitted, files, error>>

\* one turn of the retry loop (34-38)
WbRetry ==
    /\ pc = "wb_response" /\ ShouldRetry(status_code, retries)
    /\ slept' = Append(slept, Pow2(retries))
    /\ \E code \in StatusCodes : status_code' = code /\ statuses' = Append(statuses, code)
    /\ retries' = retries + 1
    /\ UNCHANGED <<pc, url, args, loopVars, stdout, todo, calls, odVars, emitted, files, error>>

\* response.raise_for_status() raises; nothing in main catches it (40, 175)
WbRaise ==
    /\ pc = "wb_response" /\ ~ShouldRetry(status_code, retries)
    /\ RaisesForStatus(status_code)
    /\ pc' = "aborted" /\ error' = "HTTPError"
    /\ UNCHANGED <<args, loopVars, wbVars, stdout, todo, calls, odVars, emitted, files>>

\* wb_get_request returns the body and main handles the page (40-43, 176-193)
ProcessPage ==
    /\ pc = "wb_response" /\ ~ShouldRetry(status_code, retries)
    /\ ~RaisesForStatus(status_code)
    /\ \E n \in 0..(MaxObs - Len(Fetched)) :
       \E shapes \in [1..n -> PageRecords] :
       \E hnp \in (IF Len(pages) + 1 < MaxPages THEN BOOLEAN ELSE {FALSE}) :
       \E cursor \in (IF hnp THEN Cursors ELSE {"none"}) :
          LET page == [k \in 1..n |-> WithId(shapes[k], Len(Fetched) + k)]
              acc == ProcessObservations(
                         [by_mission |-> observations_by_mission,
                          accumulated |-> accumulated_observations,
                          warnings |-> stdout.warnings], page)
          IN  /\ has_next_page' = hnp
              /\ next_page' = NextPageUrl(next_page, hnp, cursor, starttime, endtime)
              /\ observations_by_mission' = acc.by_mission
              /\ accumulated_observations' = acc.accumulated
              /\ stdout' = [stdout EXCEPT !.warnings = acc.warnings]
              /\ pages' = Append(pages, [url |-> url, has_next_page |-> hnp,
                                         next_page |-> cursor, observations |-> page])
              /\ pc' = IF hnp THEN "main_loop" ELSE "after_loop"
    /\ url' = NoUrl /\ status_code' = 0 /\ retries' = 0
    /\ statuses' = <<>> /\ slept' = <<>>
    /\ UNCHANGED <<args, todo, calls, odVars, emitted, files, error>>

MissionNames(by_mission) == [k \in 1..Len(by_mission) |-> by_mission[k].mission_name]

\* after the loop: return on no data, else pick the partitions (199-207)
AfterLoop ==
    /\ pc = "after_loop"
    /\ IF NoObservationsFound(observations_by_mission)
       THEN /\ stdout' = [stdout EXCEPT !.no_observations = @ + 1]
            /\ pc' = "done"
            /\ todo' = <<>>
       ELSE /\ todo' = IF combine_missions THEN <<"all">>
                       ELSE MissionNames(observations_by_mission)
            /\ pc' = IF todo' = <<>> THEN "done" ELSE "dispatch"
            /\ stdout' = stdout
    /\ UNCHANGED <<args, loopVars, wbVars, calls, odVars, emitted, files, error>>

\* the partition main passes for a name (205, 207-208)
Partition(m) ==
    IF combine_missions THEN accumulated_observations
    ELSE MissionList(observations_by_mission, m)

\* main calls output_data for the next partition (205, 208).  The for
\* statement of line 207 binds the name accumulated_observations to the
\* mission's own list, so in both modes output_data works on the list that
\* main's accumulated_observations names.
CallOutputData ==
    /\ pc = "dispatch" /\ todo # <<>>
    /\ od_mission' = Head(todo)
    /\ accumulated_observations' = Partition(Head(todo))
    /\ calls' = Append(calls, [mission_name |-> Head(todo), observations |-> Partition(Head(todo))])
    /\ todo' = Tail(todo)
    /\ curtime' = 0 /\ start_index' = 0 /\ i' = 0
    /\ pc' = "od_sort"
    /\ UNCHANGED <<args, has_next_page, next_page, observations_by_mission, pages,
                   wbVars, stdout, emitted, files, error>>

\* the dict after one of its lists was sorted in place
SetMissionList(by_mission, m, list) ==
    [k \in 1..Len(by_mission) |->
        IF by_mission[k].mission_name = m
        THEN [by_mission[k] EXCEPT !.observations = list] ELSE by_mission[k]]

\* output_data up to the loop: the in-place sorts and the anchor (86-99)
OdSort ==
    /\ pc = "od_sort"
    /\ IF \E k \in 1..Len(accumulated_observations) :
              "timestamp" \notin DOMAIN accumulated_observations[k]
       THEN \* x['timestamp'] raises in the sort key
            /\ pc' = "aborted" /\ error' = "KeyError"
            /\ UNCHANGED <<accumulated_observations, observations_by_mission, curtime, stdout>>
       ELSE IF accumulated_observations = <<>>
       THEN \* accumulated_observations[0] raises
            /\ pc' = "aborted" /\ error' = "IndexError"
            /\ UNCHANGED <<accumulated_observations, observations_by_mission, curtime, stdout>>
       ELSE LET sorted == SortByTimestamp(accumulated_observations)
                earliest_time == sorted[1]["timestamp"]
            IN  /\ accumulated_observations' = sorted
                /\ observations_by_mission' =
                       IF combine_missions THEN observations_by_mission
                       ELSE SetMissionList(observations_by_mission, od_mission, sorted)
                /\ stdout' = IF earliest_time < starttime
                             THEN [stdout EXCEPT !.wtf = @ + 1] ELSE stdout
                /\ curtime' = BucketStart(earliest_time, starttime, bucket_hours2)
                /\ pc' = "od_loop" /\ error' = error
    /\ start_index' = 0 /\ i' = 0
    /\ UNCHANGED <<args, has_next_page, next_page, pages, wbVars, todo, calls,
                   od_mission, emitted, files>>

\* what one convert_to_csv call of output_data is given (102-107, 113-117)
Emission(segment) ==
    [call |-> Len(calls), mission_name |-> od_mission, segment |-> segment,
     curtime |-> curtime, label |-> LabelTime(curtime, bucket_hours2),
     output_file |-> OutputFile(od_mission, curtime, bucket_hours2)]

Emit(segment) ==
    /\ emitted' = Append(emitted, Emission(segment))
    /\ files' = ConvertToCsv(files, segment, OutputFile(od_mission, curtime, bucket_hours2))

\* one iteration of "for i in range(len(accumulated_observations))" (100-110)
OdLoop ==
    /\ pc = "od_loop" /\ i < Len(accumulated_observations)
    /\ IF ClosesBucket(accumulated_observations[i + 1]["timestamp"], curtime, bucket_hours2)
       THEN /\ Emit(Segment(accumulated_observations, start_index, i))
            /\ start_index' = i
            /\ curtime' = curtime + TimedeltaSeconds(bucket_hours2)
       ELSE UNCHANGED <<emitted, files, start_index, curtime>>
    /\ i' = i + 1
    /\ UNCHANGED <<pc, args, loopVars, wbVars, stdout, todo, calls, od_mission, error>>

\* the tail after the loop, and the return to main (112-117)
OdTail ==
    /\ pc = "od_loop" /\ i = Len(accumulated_observations)
    /\ Emit(Segment(accumulated_observations, start_index, Len(accumulated_observations)))
    /\ pc' = IF todo = <<>> THEN "done" ELSE "dispatch"
    /\ UNCHANGED <<args, loopVars, wbVars, stdout, todo, calls, odVars, error>>

Next ==
    \/ WbGetRequest
    \/ WbRetry
    \/ WbRaise
    \/ ProcessPage
    \/ AfterLoop
    \/ CallOutputData
    \/ OdSort
    \/ OdLoop
    \/ OdTail

Spec == Init /\ [][Next]_vars

\* ------------------------------------------- output_data on its own inputs
\* The program at the entry of output_data after a run that fetched one page
\* of observations of one mission: the partition, starttime and bucket_hours
\* range over the input sets.
InitBucketizer ==
    /\ pc = "od_sort"
    /\ starttime \in StartTimes
    /\ endtime \in EndTimes
    /\ bucket_hours2 \in BucketHours2
    /\ combine_missions \in BOOLEAN
    /\ has_next_page = FALSE
    /\ next_page = PageUrl("first", starttime, endtime)
    /\ \E n \in 1..MaxLen : \E ts \in [1..n -> Timestamps] :
          LET page == [k \in 1..n |-> [id |-> k, timestamp |-> ts[k], mission_name |-> "m1"]]
          IN  /\ accumulated_observations = page
              /\ observations_by_mission = <<[mission_name |-> "m1", observations |-> page]>>
              /\ pages = <<[url |-> PageUrl("first", starttime, endtime), has_next_page |-> FALSE,
                            next_page |-> "none", observations |-> page]>>
              /\ od_mission = (IF combine_missions THEN "all" ELSE "m1")
              /\ calls = <<[mission_name |-> od_mission, observations |-> page]>>
    /\ url = NoUrl /\ status_code = 0 /\ retries = 0
    /\ statuses = <<>> /\ slept = <<>>
    /\ stdout = NoStdout
    /\ todo = <<>>
    /\ curtime = 0 /\ start_index = 0 /\ i = 0
    /\ emitted = <<>> /\ files = {}
    /\ error = ""

NextBucketizer ==
    \/ OdSort
    \/ OdLoop
    \/ OdTail

SpecBucketizer == InitBucketizer /\ [][NextBucketizer]_vars

\* ================================================================= claims
Has(o, key) == key \in DOMAIN o
WithMission(obs) == SelectSeq(obs, LAMBDA o : Has(o, "mission_name"))
OfMission(obs, m) == SelectSeq(obs, LAMBDA o : Has(o, "mission_name") /\ o["mission_name"] = m)
Elements(seq) == {seq[k] : k \in 1..Len(seq)}
Count(seq, x) == Cardinality({k \in 1..Len(seq) : seq[k] = x})
Last(seq) == seq[Len(seq)]

\* the emissions of the c-th output_data call, and their segments in order
EmittedOf(c) == SelectSeq(emitted, LAMBDA e : e.call = c)
SegmentsOf(c) == Flatten([k \in 1..Len(EmittedOf(c)) |-> EmittedOf(c)[k].segment])
CallReturned(c) == c < Len(calls) \/ pc \in {"dispatch", "done"}

\* position of an observation in the list a call was given
PositionIn(obs, x) == CHOOSE k \in 1..Len(obs) : obs[k] = x

\* out is obs in ascending timestamp order, equal timestamps in their
\* original order, every element of obs exactly once
IsSortedVersionOf(out, obs) ==
    /\ Len(out) = Len(obs)
    /\ \A x \in Elements(obs) \cup Elements(out) : Count(out, x) = Count(obs, x)
    /\ \A k \in 1..(Len(out) - 1) :
          \/ out[k]["timestamp"] < out[k + 1]["timestamp"]
          \/ /\ out[k]["timestamp"] = out[k + 1]["timestamp"]
             /\ PositionIn(obs, out[k]) < PositionIn(obs, out[k + 1])

EarliestTimestamp(obs) ==
    CHOOSE t \in {obs[k]["timestamp"] : k \in 1..Len(obs)} :
        \A k \in 1..Len(obs) : t <= obs[k]["timestamp"]

\* C1: the segments output_data hands to convert_to_csv, concatenated in
\* emission order, are the input sorted by timestamp ascending: nothing is
\* lost or duplicated, and while the loop runs the segments emitted so far
\* are exactly the first start_index elements of the sorted list.
C1_SegmentsPartitionSortedInput ==
    /\ \A c \in 1..Len(calls) :
          CallReturned(c) => IsSortedVersionOf(SegmentsOf(c), calls[c].observations)
    /\ pc = "od_loop" =>
          /\ IsSortedVersionOf(accumulated_observations, Last(calls).observations)
          /\ SegmentsOf(Len(calls)) = SubSeq(accumulated_observations, 1, start_index)

C1_Witness ==
    /\ pc = "done"
    /\ Len(emitted) >= 2
    /\ Len(calls[1].observations) >= 3
    /\ calls[1].observations[1]["timestamp"] > calls[1].observations[2]["timestamp"]

\* C2: within one output_data call the label of every emitted segment after
\* the first is the label of the segment before it plus exactly
\* width = bucket_hours * 3600 seconds.
C2_LabelsAdvanceByWidth ==
    \A c \in 1..Len(calls) : \A k \in 1..(Len(EmittedOf(c)) - 1) :
        EmittedOf(c)[k + 1].label = EmittedOf(c)[k].label + Width(bucket_hours2)

\* C3: every observation of an emitted segment lies in the segment's bucket:
\* c <= t < c + width for the bucket start c, a multiple of width.
C3_ObservationsInTheirBucket ==
    \A k \in 1..Len(emitted) :
        /\ emitted[k].curtime % Width(bucket_hours2) = 0
        /\ \A o \in Elements(emitted[k].segment) :
              /\ emitted[k].curtime <= o["timestamp"]
              /\ o["timestamp"] < emitted[k].curtime + Width(bucket_hours2)

\* C4: two distinct emitted segments of one run never get the same file
\* name, so the run leaves one file per emitted segment.
C4_FileNamesDisjoint ==
    /\ \A j, k \in 1..Len(emitted) :
          j # k => emitted[j].output_file # emitted[k].output_file
    /\ pc = "done" => Cardinality(files) = Len(emitted)

C6_Collecting == pc \in {"main_loop", "wb_response", "after_loop"}

C6_MissingMissionDropped ==
    /\ stdout.warnings = Len(Fetched) - Len(WithMission(Fetched))
    /\ \A o \in Elements(accumulated_observations) : Has(o, "mission_name")
    /\ \A k \in 1..Len(observations_by_mission) :
          /\ Elements(observations_by_mission[k].observations) =
                Elements(OfMission(Fetched, observations_by_mission[k].mission_name))
          /\ C6_Collecting => observations_by_mission[k].observations =
                OfMission(Fetched, observations_by_mission[k].mission_name)
    /\ C6_Collecting => accumulated_observations = WithMission(Fetched)
    /\ \A o \in Elements(WithMission(Fetched)) : pc \notin {"main_loop", "wb_response"} =>
          \E k \in 1..Len(observations_by_mission) :
              o \in Elements(observations_by_mission[k].observations)
    /\ \A c \in 1..Len(calls) : \A o \in Elements(calls[c].observations) :
          Has(o, "mission_name")
    /\ \A f \in files : \A o \in Elements(f.data) : Has(o, "mission_name")

C6_Witness ==
    /\ pc = "done" /\ files # {}
    /\ Len(pages) = 2
    /\ Len(pages[1].observations) = 2
    /\ ~Has(pages[1].observations[1], "mission_name")
    /\ Has(pages[1].observations[2], "mission_name")
    /\ stdout.warnings = 1
    /\ \E f \in files : pages[1].observations[2] \in Elements(f.data)

\* C7: no output_data call receives an observation without a timestamp: the
\* page loop keeps such a record out of every partition.
C7_NoTimestampNeverBucketized ==
    /\ \A c \in 1..Len(calls) : \A o \in Elements(calls[c].observations) :
          Has(o, "timestamp")
    /\ \A o \in Elements(accumulated_observations) : Has(o, "timestamp")

\* C8: output_data is never called with an empty partition; when the fetch
\* yields no accepted observation main prints "No observations found" and
\* returns normally without an output_data call or a file.
C8_NeverEmptyPartition ==
    /\ \A c \in 1..Len(calls) : Len(calls[c].observations) >= 1
    /\ (WithMission(Fetched) = <<>> /\ pc \notin {"main_loop", "wb_response", "after_loop", "aborted"}) =>
          /\ pc = "done" /\ error = ""
          /\ stdout.no_observations = 1
          /\ calls = <<>> /\ emitted = <<>> /\ files = {}
    /\ (WithMission(Fetched) # <<>> /\ pc = "done") =>
          /\ stdout.no_observations = 0
          /\ calls # <<>>

C8_Witness ==
    /\ pc = "done"
    /\ Len(Fetched) >= 2 /\ WithMission(Fetched) = <<>>
    /\ stdout.no_observations = 1

\* C9: the page loop requests the first URL, then the next_page of each
\* response whose has_next_page is true, and stops after the first response
\* whose has_next_page is false; when it stops every observation with a
\* mission_name of every fetched page is accumulated exactly once, and no
\* output_data call happens before the last page was fetched.
C9_ExpectedUrl(k) ==
    IF k = 1 THEN PageUrl("first", starttime, endtime)
    ELSE PageUrl(pages[k - 1].next_page, starttime, endtime)

C9_PageLoop ==
    /\ \A k \in 1..Len(pages) : pages[k].url = C9_ExpectedUrl(k)
    /\ \A k \in 1..(Len(pages) - 1) : pages[k].has_next_page
    /\ pc = "wb_response" => url = C9_ExpectedUrl(Len(pages) + 1)
    /\ pc \in {"main_loop", "wb_response"} =>
          /\ calls = <<>> /\ emitted = <<>> /\ files = {}
          /\ pages # <<>> => Last(pages).has_next_page
    /\ (pc \notin {"main_loop", "wb_response"} /\ error # "HTTPError") =>
          /\ pages # <<>>
          /\ ~Last(pages).has_next_page
    /\ pc = "after_loop" =>
          /\ accumulated_observations = WithMission(Fetched)
          /\ \A o \in Elements(Fetched) :
                Count(accumulated_observations, o) = (IF Has(o, "mission_name") THEN 1 ELSE 0)

C9_Witness ==
    /\ pc = "done" /\ calls # <<>>
    /\ Len(pages) = 2
    /\ pages[1].next_page = "p2"
    /\ pages[1].observations # <<>>
    /\ pages[2].observations # <<>>
    /\ Has(Last(pages[2].observations), "mission_name")

\* C10: wb_get_request sends at most 6 requests (the first and at most 5
\* retries, sleeping 2^k seconds before retry k = 0..4), a request is only
\* repeated after a 502, a successful response is returned at once, and an
\* error response left after the retries raises out of main before any
\* output_data call.
C10_Requests ==
    /\ Len(statuses) <= 6
    /\ pc = "wb_response" =>
          /\ Len(statuses) = retries + 1
          /\ Last(statuses) = status_code
    /\ \A k \in 1..(Len(statuses) - 1) : statuses[k] = 502
    /\ Len(slept) = Len(statuses) - (IF statuses = <<>> THEN 0 ELSE 1)
    /\ \A k \in 1..Len(slept) : slept[k] = Pow2(k - 1)
    /\ (error = "HTTPError") <=> (pc = "aborted" /\ statuses # <<>>)
    /\ error = "HTTPError" =>
          /\ Last(statuses) >= 400
          /\ Last(statuses) = 502 => Len(statuses) = 6
          /\ calls = <<>> /\ emitted = <<>> /\ files = {}

C10_Step ==
    /\ (pc = "wb_response" /\ status_code = 200) =>
          (pc' \in {"main_loop", "after_loop"} /\ Len(pages') = Len(pages) + 1)
    /\ (pc = "wb_response" /\ status_code = 502 /\ Len(statuses) = 6) =>
          (pc' = "aborted" /\ error' = "HTTPError")
    /\ (pc = "wb_response" /\ status_code = 502 /\ Len(statuses) < 6) =>
          (pc' = "wb_response" /\ Len(statuses') = Len(statuses) + 1)

C10_BoundedRetries == []C10_Requests /\ [][C10_Step]_vars

C10_Witness ==
    /\ pc = "aborted" /\ error = "HTTPError"
    /\ Len(statuses) = 6 /\ Last(statuses) = 502
    /\ slept = <<1, 2, 4, 8, 16>>
    /\ Len(pages) = 1

====
